---- MODULE Spec2Model ----
(***************************************************************************)
(* Model of the rate-limit / retry controller (utils/rate-limiter.ts,      *)
(* class RateLimitManager) and of the model selector                       *)
(* (utils/model-selector.ts) of gemsuite-mcp.                              *)
(*                                                                         *)
(* Time is in milliseconds.  A synchronous segment of a handler (the code  *)
(* between two awaits) is one action and reads one value of Date.now().    *)
(***************************************************************************)
EXTENDS Integers, Sequences, FiniteSets, TLC

\* ------------------------------------------------------------------------
\* Bounds of the model
\* ------------------------------------------------------------------------

\* requests per minute of the Flash and Flash-Lite entries of the registry,
\* scaled down from the registry's 15 so that a window fills within the bounds
FlashRpm == 3

\* requests per minute of the Flash Thinking entry, scaled down from 10
ThinkingRpm == 2

\* number of clock advances explored
MaxTicks == 6

\* number of direct calls of recordRequest in one behaviour
MaxRecords == 4

\* number of files in an array passed to selectModel
MaxFiles == 2

\* number of clock advances explored when two models are in use
MaxPairTicks == 3

\* number of invocations of the operation within one minute after which the
\* single caller of SpecSolo starts no further call of executeWithRetry
MaxInvocations == 4

\* ------------------------------------------------------------------------
\* Program constants
\* ------------------------------------------------------------------------

MAX_RETRIES == 5

BASE_DELAY_MS == 1000

MAX_DELAY_MS == 60000

\* JITTER_FACTOR 0.2, in thousandths
JITTER_FACTOR == 200

FLASH == "gemini-2.0-flash-001"

FLASH_LITE == "gemini-2.0-flash-lite-001"

FLASH_THINKING == "gemini-2.0-flash-thinking-exp-01-21"

\* an identifier the registry does not know
UNKNOWN_ID == "gemini-unknown"

\* config/models.ts MODELS: the registry (only the fields the controller and
\* the selector read)
MODELS ==
  (FLASH :> [id |-> FLASH, freeRpm |-> FlashRpm,
             capabilities |-> [search |-> TRUE, thinking |-> FALSE,
                               multimodal |-> TRUE, fastResponse |-> FALSE]])
  @@ (FLASH_LITE :> [id |-> FLASH_LITE, freeRpm |-> FlashRpm,
             capabilities |-> [search |-> FALSE, thinking |-> FALSE,
                               multimodal |-> TRUE, fastResponse |-> TRUE]])
  @@ (FLASH_THINKING :> [id |-> FLASH_THINKING, freeRpm |-> ThinkingRpm,
             capabilities |-> [search |-> FALSE, thinking |-> TRUE,
                               multimodal |-> TRUE, fastResponse |-> FALSE]])

\* an identifier that is no key of MODELS but names a member every object
\* inherits from Object.prototype: MODELS[PROTO_ID] is that member (a function)
PROTO_ID == "constructor"

\* the identifiers for which MODELS[modelId] is truthy without being a
\* registry entry
InheritedIds == {PROTO_ID}

\* every identifier of the model
AllIds == DOMAIN MODELS \cup {UNKNOWN_ID, PROTO_ID}

\* the identifiers outside the registry
UnknownIds == {UNKNOWN_ID, PROTO_ID}

\* NaN, the result of arithmetic on undefined: no comparison with a number
\* holds of it.  It is kept apart from every number the model computes, all
\* of which are >= 0, so that NaN >= 0 and NaN = 0 are false
NaN == -9

\* the identifiers callers pass to the controller
ModelIds == {FLASH_THINKING, UNKNOWN_ID}

\* the concurrent callers of executeWithRetry (async tasks on one thread)
Procs == {1, 2}

\* the steps by which the clock advances between synchronous segments
ClockSteps == {30000}

\* the values Math.random() takes, in thousandths
RandomValues == {0, 999}

\* ------------------------------------------------------------------------
\* Helpers
\* ------------------------------------------------------------------------

Max(a, b) == IF a >= b THEN a ELSE b

Min(a, b) == IF a <= b THEN a ELSE b

RECURSIVE Pow2(_)
Pow2(n) == IF n = 0 THEN 1 ELSE 2 * Pow2(n - 1)

\* Math.ceil(a / b) for a >= 0 or a NaN, and b > 0
CeilDiv(a, b) == IF a = NaN THEN NaN ELSE (a + b - 1) \div b

\* Array.prototype.filter with the predicate t >= bound
RECURSIVE FilterGE(_, _)
FilterGE(s, bound) ==
  IF s = <<>> THEN <<>>
  ELSE IF Head(s) >= bound THEN <<Head(s)>> \o FilterGE(Tail(s), bound)
       ELSE FilterGE(Tail(s), bound)

\* insertion of x into an ascending sequence
RECURSIVE InsertSorted(_, _)
InsertSorted(x, s) ==
  IF s = <<>> THEN <<x>>
  ELSE IF x <= Head(s) THEN <<x>> \o s
       ELSE <<Head(s)>> \o InsertSorted(x, Tail(s))

\* timestamps.sort((a, b) => a - b)
RECURSIVE SortAsc(_)
SortAsc(s) == IF s = <<>> THEN <<>> ELSE InsertSorted(Head(s), SortAsc(Tail(s)))

\* number of elements of s that are >= bound
RECURSIVE CountGE(_, _)
CountGE(s, bound) ==
  IF s = <<>> THEN 0
  ELSE (IF Head(s) >= bound THEN 1 ELSE 0) + CountGE(Tail(s), bound)

\* ------------------------------------------------------------------------
\* RateLimitManager: the synchronous methods, as functions of the timestamp
\* map ts (requestTimestamps), the model identifier and Date.now()
\* ------------------------------------------------------------------------

\* MODELS[modelId].freeRpm for a truthy MODELS[modelId]: the quota of a
\* registry entry; undefined for an inherited member, and every comparison
\* of a number with undefined is false (as with NaN)
freeRpm(modelId) ==
  IF modelId \in DOMAIN MODELS THEN MODELS[modelId].freeRpm ELSE NaN

\* Array.prototype.filter with the predicate t > bound
RECURSIVE FilterGT(_, _)
FilterGT(s, bound) ==
  IF s = <<>> THEN <<>>
  ELSE IF Head(s) > bound THEN <<Head(s)>> \o FilterGT(Tail(s), bound)
       ELSE FilterGT(Tail(s), bound)

\* canMakeRequest with the window's lower end excluded (t > oneMinuteAgo)
canMakeRequest_OpenWindow(ts, modelId, t) ==
  IF modelId \notin DOMAIN MODELS \cup InheritedIds
  THEN [ok |-> FALSE, ts |-> ts]
  ELSE IF modelId \notin DOMAIN ts
       THEN [ok |-> TRUE, ts |-> (modelId :> <<>>) @@ ts]
       ELSE LET rpm == freeRpm(modelId)
                oneMinuteAgo == t - 60 * 1000
                recentTimestamps == FilterGT(ts[modelId], oneMinuteAgo)
            IN  [ok |-> rpm # NaN /\ Len(recentTimestamps) < rpm,
                 ts |-> [ts EXCEPT ![modelId] = recentTimestamps]]

\* canMakeRequest that admits up to and including the quota (length <= rpm)
canMakeRequest_OffByOne(ts, modelId, t) ==
  IF modelId \notin DOMAIN MODELS \cup InheritedIds
  THEN [ok |-> FALSE, ts |-> ts]
  ELSE IF modelId \notin DOMAIN ts
       THEN [ok |-> TRUE, ts |-> (modelId :> <<>>) @@ ts]
       ELSE LET rpm == freeRpm(modelId)
                oneMinuteAgo == t - 60 * 1000
                recentTimestamps == FilterGE(ts[modelId], oneMinuteAgo)
            IN  [ok |-> rpm # NaN /\ Len(recentTimestamps) <= rpm,
                 ts |-> [ts EXCEPT ![modelId] = recentTimestamps]]

\* canMakeRequest: the answer and the map it leaves behind
canMakeRequest(ts, modelId, t) ==
  IF modelId \notin DOMAIN MODELS \cup InheritedIds
  THEN [ok |-> FALSE, ts |-> ts]
  ELSE IF modelId \notin DOMAIN ts
       THEN [ok |-> TRUE, ts |-> (modelId :> <<>>) @@ ts]
       ELSE LET rpm == freeRpm(modelId)
                oneMinuteAgo == t - 60 * 1000
                recentTimestamps == FilterGE(ts[modelId], oneMinuteAgo)
            IN  [ok |-> rpm # NaN /\ Len(recentTimestamps) < rpm,
                 ts |-> [ts EXCEPT ![modelId] = recentTimestamps]]

\* recordRequest pushing the timestamp into every window
recordRequest_EveryWindow(ts, modelId, t) ==
  LET ts1 == IF modelId \notin DOMAIN ts THEN (modelId :> <<>>) @@ ts ELSE ts
  IN  [m \in DOMAIN ts1 |-> Append(ts1[m], t)]

\* recordRequest pushing the timestamp twice
recordRequest_Twice(ts, modelId, t) ==
  LET ts1 == IF modelId \notin DOMAIN ts THEN (modelId :> <<>>) @@ ts ELSE ts
  IN  [ts1 EXCEPT ![modelId] = Append(Append(@, t), t)]

\* recordRequest: the map after the push
recordRequest(ts, modelId, t) ==
  LET ts1 == IF modelId \notin DOMAIN ts THEN (modelId :> <<>>) @@ ts ELSE ts
  IN  [ts1 EXCEPT ![modelId] = Append(@, t)]

\* getTimeUntilNextSlot: the wait in ms and the map it leaves behind
getTimeUntilNextSlot(ts, modelId, t) ==
  LET can == canMakeRequest(ts, modelId, t)
  IN  IF can.ok THEN [wait |-> 0, ts |-> can.ts]
      ELSE IF modelId \notin DOMAIN MODELS \cup InheritedIds
           THEN [wait |-> 60000, ts |-> can.ts]
      ELSE LET rpm == freeRpm(modelId)
               timestamps == can.ts[modelId]
           IN  IF rpm # NaN /\ Len(timestamps) < rpm THEN [wait |-> 0, ts |-> can.ts]
               ELSE LET sorted == SortAsc(timestamps)
                    IN  IF rpm = NaN
                        \* timestamps[NaN] is undefined, undefined + 60000 is NaN
                        \* and Math.max(0, NaN) is NaN
                        THEN [wait |-> NaN, ts |-> [can.ts EXCEPT ![modelId] = sorted]]
                        ELSE LET oldestTimestamp == sorted[Len(sorted) - rpm + 1]
                                 expiryTime == oldestTimestamp + 60000
                             IN  [wait |-> Max(0, expiryTime - t),
                                  ts |-> [can.ts EXCEPT ![modelId] = sorted]]

\* isRateLimitError that also takes the controller's own rate-limit error
isRateLimitError_LocalToo(error) ==
  (error.isAxiosError /\ error.status = 429) \/ error.waitSeconds >= 0

\* isRateLimitError that does not look at the status
isRateLimitError_AnyAxios(error) == error.isAxiosError

\* isAxiosError && error.response?.status === 429
isRateLimitError(error) == error.isAxiosError /\ error.status = 429

\* calculateBackoff with twice the jitter span
calculateBackoff_DoubleJitter(retry, rnd) ==
  LET exponentialDelay == Min(MAX_DELAY_MS, BASE_DELAY_MS * Pow2(retry))
      randomFactor == ((1000 - JITTER_FACTOR) * 1000 + rnd * JITTER_FACTOR * 4) \div 100
  IN  (exponentialDelay * randomFactor) \div 10000

\* calculateBackoff: retry count and Math.random() in thousandths
calculateBackoff(retry, rnd) ==
  LET exponentialDelay == Min(MAX_DELAY_MS, BASE_DELAY_MS * Pow2(retry))
      \* randomFactor = 1 - jitter + random * jitter * 2, in ten-thousandths
      randomFactor == ((1000 - JITTER_FACTOR) * 1000 + rnd * JITTER_FACTOR * 2) \div 100
  IN  (exponentialDelay * randomFactor) \div 10000

\* ------------------------------------------------------------------------
\* Values
\* ------------------------------------------------------------------------

\* the results the operation resolves to
Responses == {"candidatesA", "candidatesB"}

\* the failures the operation rejects with: a 429, 400 or 500 response of the
\* upstream as an axios error, and an error carrying a 429 status that is not
\* an axios error
ApiErrors ==
  { [isAxiosError |-> TRUE,  status |-> 429, waitSeconds |-> -1],
    [isAxiosError |-> TRUE,  status |-> 400, waitSeconds |-> -1],
    [isAxiosError |-> TRUE,  status |-> 500, waitSeconds |-> -1],
    [isAxiosError |-> FALSE, status |-> 429, waitSeconds |-> -1] }

\* new Error(ERROR_MESSAGES.RATE_LIMIT(modelId, waitTimeSeconds))
RateLimitError(waitTimeSeconds) ==
  [isAxiosError |-> FALSE, status |-> 0, waitSeconds |-> waitTimeSeconds]

NoOutcome == [kind |-> "none"]

\* new Error(`Maximum retries (...) reached for ...`), after the loop
MaxRetriesError == [isAxiosError |-> FALSE, status |-> 0, waitSeconds |-> -2]

\* one caller that is not inside executeWithRetry
IdleCall ==
  [pc |-> "idle", modelId |-> UNKNOWN_ID, retries |-> 0, sleepLeft |-> 0,
   outcome |-> NoOutcome,
   \* history of the invocation: operation invocations, timestamps pushed,
   \* backoff sleeps, the window length seen by the first admission check,
   \* the wait computed on denial, what the operation last settled with, and
   \* the retry counts passed to calculateBackoff
   attempts |-> 0, appended |-> 0, sleeps |-> 0, admitLen |-> -1,
   waitTime |-> -1, settled |-> NoOutcome, backoffs |-> <<>>]

\* ------------------------------------------------------------------------
\* Model selector (utils/model-selector.ts) and the file-type category it
\* reads (utils/file-handler.ts).  A JavaScript string that the code takes
\* apart (a path, an extension, a mime type) is a sequence of characters.
\* ------------------------------------------------------------------------

\* undefined
Undefined == [kind |-> "undefined"]

\* String.prototype.startsWith
StartsWith(s, prefix) ==
  Len(s) >= Len(prefix) /\ SubSeq(s, 1, Len(prefix)) = prefix

\* String.prototype.includes
Includes(s, sub) ==
  \E i \in 1..(Len(s) - Len(sub) + 1) : SubSeq(s, i, i + Len(sub) - 1) = sub

\* the upper-case letters and their lower-case forms
LowerOf ==
  [c \in {"A", "B", "C", "D", "E", "F", "G", "H", "I", "J", "K", "L", "M",
          "N", "O", "P", "Q", "R", "S", "T", "U", "V", "W", "X", "Y", "Z"} |->
     CASE c = "A" -> "a" [] c = "B" -> "b" [] c = "C" -> "c" [] c = "D" -> "d"
       [] c = "E" -> "e" [] c = "F" -> "f" [] c = "G" -> "g" [] c = "H" -> "h"
       [] c = "I" -> "i" [] c = "J" -> "j" [] c = "K" -> "k" [] c = "L" -> "l"
       [] c = "M" -> "m" [] c = "N" -> "n" [] c = "O" -> "o" [] c = "P" -> "p"
       [] c = "Q" -> "q" [] c = "R" -> "r" [] c = "S" -> "s" [] c = "T" -> "t"
       [] c = "U" -> "u" [] c = "V" -> "v" [] c = "W" -> "w" [] c = "X" -> "x"
       [] c = "Y" -> "y" [] c = "Z" -> "z"]

\* String.prototype.toLowerCase
ToLowerCase(s) ==
  [i \in 1..Len(s) |-> IF s[i] \in DOMAIN LowerOf THEN LowerOf[s[i]] ELSE s[i]]

\* index of the last occurrence of character c in s, 0 when there is none
RECURSIVE LastIndexOf(_, _)
LastIndexOf(s, c) ==
  IF s = <<>> THEN 0
  ELSE IF s[Len(s)] = c THEN Len(s)
       ELSE LastIndexOf(SubSeq(s, 1, Len(s) - 1), c)

\* path.extname (posix): from the last "." of the last path segment to the
\* end; empty when the segment has no "." or only a leading one
ExtName(filePath) ==
  LET slash == LastIndexOf(filePath, "/")
      base == SubSeq(filePath, slash + 1, Len(filePath))
      dot == LastIndexOf(base, ".")
  IN  IF dot <= 1 THEN <<>> ELSE SubSeq(base, dot, Len(base))

\* MIME_TYPES: extension -> mime type
MIME_TYPES ==
  (<<".", "j", "p", "g">> :> <<"i", "m", "a", "g", "e", "/", "j", "p", "e", "g">>)
  @@ (<<".", "j", "p", "e", "g">> :> <<"i", "m", "a", "g", "e", "/", "j", "p", "e", "g">>)
  @@ (<<".", "p", "n", "g">> :> <<"i", "m", "a", "g", "e", "/", "p", "n", "g">>)
  @@ (<<".", "g", "i", "f">> :> <<"i", "m", "a", "g", "e", "/", "g", "i", "f">>)
  @@ (<<".", "w", "e", "b", "p">> :> <<"i", "m", "a", "g", "e", "/", "w", "e", "b", "p">>)
  @@ (<<".", "s", "v", "g">> :> <<"i", "m", "a", "g", "e", "/", "s", "v", "g", "+", "x", "m",
        "l">>)
  @@ (<<".", "p", "d", "f">> :> <<"a", "p", "p", "l", "i", "c", "a", "t", "i", "o", "n", "/",
        "p", "d", "f">>)
  @@ (<<".", "d", "o", "c">> :> <<"a", "p", "p", "l", "i", "c", "a", "t", "i", "o", "n", "/",
        "m", "s", "w", "o", "r", "d">>)
  @@ (<<".", "d", "o", "c", "x">> :> <<"a", "p", "p", "l", "i", "c", "a", "t", "i", "o", "n",
        "/", "v", "n", "d", ".", "o", "p", "e", "n", "x", "m", "l", "f", "o", "r", "m", "a",
        "t", "s", "-", "o", "f", "f", "i", "c", "e", "d", "o", "c", "u", "m", "e", "n", "t",
        ".", "w", "o", "r", "d", "p", "r", "o", "c", "e", "s", "s", "i", "n", "g", "m", "l",
        ".", "d", "o", "c", "u", "m", "e", "n", "t">>)
  @@ (<<".", "t", "x", "t">> :> <<"t", "e", "x", "t", "/", "p", "l", "a", "i", "n">>)
  @@ (<<".", "m", "d">> :> <<"t", "e", "x", "t", "/", "m", "a", "r", "k", "d", "o", "w", "n">>)
  @@ (<<".", "c", "s", "v">> :> <<"t", "e", "x", "t", "/", "c", "s", "v">>)
  @@ (<<".", "j", "s", "o", "n">> :> <<"a", "p", "p", "l", "i", "c", "a", "t", "i", "o", "n",
        "/", "j", "s", "o", "n">>)
  @@ (<<".", "j", "s">> :> <<"t", "e", "x", "t", "/", "j", "a", "v", "a", "s", "c", "r", "i",
        "p", "t">>)
  @@ (<<".", "t", "s">> :> <<"t", "e", "x", "t", "/", "t", "y", "p", "e", "s", "c", "r", "i",
        "p", "t">>)
  @@ (<<".", "p", "y">> :> <<"t", "e", "x", "t", "/", "x", "-", "p", "y", "t", "h", "o", "n">>)
  @@ (<<".", "h", "t", "m", "l">> :> <<"t", "e", "x", "t", "/", "h", "t", "m", "l">>)
  @@ (<<".", "c", "s", "s">> :> <<"t", "e", "x", "t", "/", "c", "s", "s">>)
  @@ (<<".", "j", "a", "v", "a">> :> <<"t", "e", "x", "t", "/", "x", "-", "j", "a", "v", "a">>)
  @@ (<<".", "c", "p", "p">> :> <<"t", "e", "x", "t", "/", "x", "-", "c", "+", "+">>)
  @@ (<<".", "c">> :> <<"t", "e", "x", "t", "/", "x", "-", "c">>)
  @@ (<<".", "c", "s">> :> <<"t", "e", "x", "t", "/", "x", "-", "c", "s", "h", "a", "r", "p">>)
  @@ (<<"d", "e", "f", "a", "u", "l", "t">> :> <<"a", "p", "p", "l", "i", "c", "a", "t", "i",
        "o", "n", "/", "o", "c", "t", "e", "t", "-", "s", "t", "r", "e", "a", "m">>)

\* getMimeType: MIME_TYPES[ext] || MIME_TYPES.default
getMimeType(filePath) ==
  LET ext == ToLowerCase(ExtName(filePath))
  IN  IF ext \in DOMAIN MIME_TYPES THEN MIME_TYPES[ext]
      ELSE MIME_TYPES[<<"d", "e", "f", "a", "u", "l", "t">>]

\* getFileTypeCategory
getFileTypeCategory(filePath) ==
  LET mimeType == getMimeType(filePath)
  IN  IF StartsWith(mimeType, <<"i", "m", "a", "g", "e", "/">>) THEN "image"
      ELSE IF mimeType = <<"a", "p", "p", "l", "i", "c", "a", "t", "i", "o", "n", "/", "p", "d", "f">>
              \/ Includes(mimeType, <<"d", "o", "c", "u", "m", "e", "n", "t">>)
           THEN "document"
      ELSE IF StartsWith(mimeType, <<"t", "e", "x", "t", "/">>)
           THEN IF \/ Includes(mimeType, <<"j", "a", "v", "a", "s", "c", "r", "i", "p", "t">>)
                   \/ Includes(mimeType, <<"p", "y", "t", "h", "o", "n">>)
                   \/ Includes(mimeType, <<"j", "a", "v", "a">>)
                   \/ Includes(mimeType, <<"c">>)
                THEN "code"
                ELSE "text"
      ELSE "binary"

\* getModelForFile that sends code files to Flash
getModelForFile_CodeToFlash(filePath) ==
  IF filePath = <<>> THEN FLASH
  ELSE LET category == getFileTypeCategory(filePath)
       IN  CASE category = "text" -> FLASH_LITE
             [] OTHER -> FLASH

\* getModelForFile
getModelForFile(filePath) ==
  IF filePath = <<>> THEN FLASH
  ELSE LET category == getFileTypeCategory(filePath)
           extension == ToLowerCase(ExtName(filePath))
       IN  CASE category = "image" -> FLASH
             [] category = "document" -> FLASH
             [] category = "code" -> FLASH_THINKING
             [] category = "text" ->
                  IF extension \in {<<".", "c", "s", "v">>, <<".", "j", "s", "o", "n">>,
                                    <<".", "x", "m", "l">>}
                  THEN FLASH
                  ELSE FLASH_LITE
             [] OTHER -> FLASH

\* interfaces/common.ts TaskType
GENERAL_SEARCH == "general_search"

RAPID_SEARCH == "rapid_search"

RAPID_PROCESSING == "rapid_processing"

COMPLEX_REASONING == "complex_reasoning"

FILE_ANALYSIS == "file_analysis"

\* the values of TaskType
TaskTypes ==
  {GENERAL_SEARCH, RAPID_SEARCH, RAPID_PROCESSING, COMPLEX_REASONING, FILE_ANALYSIS}

\* config/models.ts getModelForTask
config_getModelForTask(taskType) ==
  CASE taskType = GENERAL_SEARCH -> "gemini-2.0-flash-001"
    [] taskType = RAPID_PROCESSING -> "gemini-2.0-flash-lite-001"
    [] taskType = COMPLEX_REASONING -> "gemini-2.0-flash-thinking-exp-01-21"
    [] taskType = FILE_ANALYSIS -> "gemini-2.0-flash-001"
    [] OTHER -> "gemini-2.0-flash-001"

\* getModelForTask that sends rapid processing to Flash
getModelForTask_ProcessingToFlash(taskType) ==
  CASE taskType = COMPLEX_REASONING -> FLASH_THINKING
    [] OTHER -> FLASH

\* getModelForTask
getModelForTask(taskType) ==
  CASE taskType = GENERAL_SEARCH -> FLASH
    [] taskType = COMPLEX_REASONING -> FLASH_THINKING
    [] taskType = RAPID_PROCESSING -> FLASH_LITE
    [] taskType = FILE_ANALYSIS -> FLASH
    [] OTHER -> FLASH

\* a string (an identifier, an enum value), a boolean, a path and an array
Str(s) == [kind |-> "string", value |-> s]

Bool(b) == [kind |-> "boolean", value |-> b]

PathOf(chars) == [kind |-> "path", value |-> chars]

ArrayOf(files) == [kind |-> "array", value |-> files]

\* a number, where the handlers expect a string
Num == [kind |-> "number", value |-> 42]

\* typeof
TypeOf(v) ==
  CASE v.kind \in {"string", "path"} -> "string"
    [] v.kind = "number" -> "number"
    [] v.kind = "boolean" -> "boolean"
    [] v.kind \in {"array", "object"} -> "object"
    [] OTHER -> "undefined"

\* truthiness of an optional field: undefined, false, 0 and the empty string
\* are falsy, every array and object is truthy
Truthy(v) ==
  \/ v.kind = "number" /\ v.value # 0
  \/ v.kind = "object"
  \/ v.kind = "string" /\ v.value # ""
  \/ v.kind = "boolean" /\ v.value
  \/ v.kind = "path" /\ v.value # <<>>
  \/ v.kind = "array"

\* NeedsOf that stops at the first file of the array
NeedsOf_FirstFile(files) ==
  IF files = <<>> THEN [needsFlash |-> FALSE, needsThinking |-> FALSE]
  ELSE LET category == getFileTypeCategory(Head(files))
       IN  [needsFlash |-> category = "image" \/ category = "document",
            needsThinking |-> category = "code"]

\* the for loop of selectModel over the files of an array: the two flags
RECURSIVE NeedsOf(_)
NeedsOf(files) ==
  IF files = <<>> THEN [needsFlash |-> FALSE, needsThinking |-> FALSE]
  ELSE LET category == getFileTypeCategory(Head(files))
           rest == NeedsOf(Tail(files))
       IN  [needsFlash |-> rest.needsFlash \/ category = "image" \/ category = "document",
            needsThinking |-> rest.needsThinking \/ category = "code"]

\* the branch of selectModel for options.filePath, a path or an array
FileRule(filePath) ==
  IF filePath.kind = "array"
  THEN LET needs == NeedsOf(filePath.value)
       IN  IF needs.needsThinking THEN FLASH_THINKING
           ELSE IF needs.needsFlash THEN FLASH
           ELSE FLASH_LITE
  ELSE getModelForFile(filePath.value)

\* selectModel with the cost-efficiency rule ahead of the search rule
selectModel_CostBeforeSearch(opts) ==
  IF Truthy(opts.modelId) THEN opts.modelId.value
  ELSE IF Truthy(opts.thinking) THEN FLASH_THINKING
  ELSE IF Truthy(opts.costEfficient) THEN FLASH_LITE
  ELSE IF Truthy(opts.searchRequired) THEN FLASH
  ELSE IF Truthy(opts.filePath) THEN FileRule(opts.filePath)
  ELSE IF Truthy(opts.taskType) THEN getModelForTask(opts.taskType.value)
  ELSE FLASH

\* selectModel with the search rule ahead of the thinking rule
selectModel_SearchBeforeThinking(opts) ==
  IF Truthy(opts.modelId) THEN opts.modelId.value
  ELSE IF Truthy(opts.searchRequired) THEN FLASH
  ELSE IF Truthy(opts.thinking) THEN FLASH_THINKING
  ELSE IF Truthy(opts.costEfficient) THEN FLASH_LITE
  ELSE IF Truthy(opts.filePath) THEN FileRule(opts.filePath)
  ELSE IF Truthy(opts.taskType) THEN getModelForTask(opts.taskType.value)
  ELSE FLASH

\* selectModel with the thinking rule ahead of the override
selectModel_ThinkingFirst(opts) ==
  IF Truthy(opts.thinking) THEN FLASH_THINKING
  ELSE IF Truthy(opts.modelId) THEN opts.modelId.value
  ELSE IF Truthy(opts.searchRequired) THEN FLASH
  ELSE IF Truthy(opts.costEfficient) THEN FLASH_LITE
  ELSE IF Truthy(opts.filePath)
       THEN IF opts.filePath.kind = "array"
            THEN LET needs == NeedsOf(opts.filePath.value)
                 IN  IF needs.needsThinking THEN FLASH_THINKING
                     ELSE IF needs.needsFlash THEN FLASH
                     ELSE FLASH_LITE
            ELSE getModelForFile(opts.filePath.value)
  ELSE IF Truthy(opts.taskType) THEN getModelForTask(opts.taskType.value)
  ELSE FLASH

\* selectModel
selectModel(opts) ==
  IF Truthy(opts.modelId) THEN opts.modelId.value
  ELSE IF Truthy(opts.thinking) THEN FLASH_THINKING
  ELSE IF Truthy(opts.searchRequired) THEN FLASH
  ELSE IF Truthy(opts.costEfficient) THEN FLASH_LITE
  ELSE IF Truthy(opts.filePath)
       THEN IF opts.filePath.kind = "array"
            THEN LET needs == NeedsOf(opts.filePath.value)
                 IN  IF needs.needsThinking THEN FLASH_THINKING
                     ELSE IF needs.needsFlash THEN FLASH
                     ELSE FLASH_LITE
            ELSE getModelForFile(opts.filePath.value)
  ELSE IF Truthy(opts.taskType) THEN getModelForTask(opts.taskType.value)
  ELSE FLASH

\* the file paths callers pass
PATH_PNG == <<"p", "h", "o", "t", "o", "s", "/", "s", "h", "o", "t", ".", "P", "N", "G">>

PATH_PDF == <<"r", "e", "p", "o", "r", "t", ".", "p", "d", "f">>

PATH_DOC == <<"l", "e", "t", "t", "e", "r", ".", "d", "o", "c">>

PATH_PY == <<"s", "r", "c", "/", "m", "a", "i", "n", ".", "p", "y">>

PATH_TXT == <<"n", "o", "t", "e", "s", ".", "t", "x", "t">>

PATH_MD == <<"R", "E", "A", "D", "M", "E", ".", "m", "d">>

PATH_CSV == <<"t", "a", "b", "l", "e", ".", "c", "s", "v">>

PATH_JSON == <<"d", "a", "t", "a", ".", "j", "s", "o", "n">>

PATH_XML == <<"f", "e", "e", "d", ".", "x", "m", "l">>

PATH_HTML == <<"p", "a", "g", "e", ".", "h", "t", "m", "l">>

PATH_NOEXT == <<"v", "1", ".", "2", "/", "M", "a", "k", "e", "f", "i", "l", "e">>

\* the files callers put in arrays
ArrayPaths == {PATH_PNG, PATH_DOC, PATH_PY, PATH_TXT, PATH_CSV, PATH_JSON}

Paths ==
  {PATH_PNG, PATH_PDF, PATH_DOC, PATH_PY, PATH_TXT, PATH_MD,
   PATH_CSV, PATH_JSON, PATH_XML, PATH_HTML, PATH_NOEXT}

\* the arrays of at most n files
RECURSIVE FileArrays(_)
FileArrays(n) ==
  IF n = 0 THEN {<<>>}
  ELSE LET shorter == FileArrays(n - 1)
       IN  shorter \cup {Append(a, f) : a \in shorter, f \in ArrayPaths}

\* the options callers pass to selectModel
OptionSet ==
  [modelId : {Undefined, Str(""), Str(UNKNOWN_ID), Str(FLASH_LITE)},
   thinking : {Undefined, Bool(FALSE), Bool(TRUE)},
   searchRequired : {Undefined, Bool(TRUE)},
   costEfficient : {Undefined, Bool(TRUE)},
   filePath : {Undefined, PathOf(<<>>)} \cup {PathOf(f) : f \in Paths}
                \cup {ArrayOf(a) : a \in FileArrays(MaxFiles)},
   taskType : {Undefined, Str(GENERAL_SEARCH), Str(RAPID_SEARCH), Str(RAPID_PROCESSING),
               Str(COMPLEX_REASONING), Str(FILE_ANALYSIS)}]

\* no call of selectModel made yet
NoSelection == "(none)"

\* no call of calculateBackoff made yet
NoBackoff == [retry |-> -1, rnd |-> -1, ms |-> -1]

\* ------------------------------------------------------------------------
\* Error messages (interfaces/common.ts) and the error handler
\* (utils/error-handler.ts)
\* ------------------------------------------------------------------------

\* the characters of each identifier
CharsOf ==
  (FLASH :> <<"g", "e", "m", "i", "n", "i", "-", "2", ".", "0", "-", "f", "l", "a",
        "s", "h", "-", "0", "0", "1">>)
  @@ (FLASH_LITE :> <<"g", "e", "m", "i", "n", "i", "-", "2", ".", "0", "-", "f", "l", "a",
        "s", "h", "-", "l", "i", "t", "e", "-", "0", "0", "1">>)
  @@ (FLASH_THINKING :> <<"g", "e", "m", "i", "n", "i", "-", "2", ".", "0", "-", "f", "l", "a",
        "s", "h", "-", "t", "h", "i", "n", "k", "i", "n", "g", "-", "e",
        "x", "p", "-", "0", "1", "-", "2", "1">>)
  @@ (UNKNOWN_ID :> <<"g", "e", "m", "i", "n", "i", "-", "u", "n", "k", "n", "o", "w", "n">>)
  @@ (PROTO_ID :> <<"c", "o", "n", "s", "t", "r", "u", "c", "t", "o", "r">>)

\* the decimal digits
DigitOf ==
  [d \in 0..9 |->
     CASE d = 0 -> "0" [] d = 1 -> "1" [] d = 2 -> "2" [] d = 3 -> "3"
       [] d = 4 -> "4" [] d = 5 -> "5" [] d = 6 -> "6" [] d = 7 -> "7"
       [] d = 8 -> "8" [] d = 9 -> "9"]

\* the conversion of a number to a string in a template literal, for n >= 0
\* or n NaN
RECURSIVE NumberToString(_)
NumberToString(n) ==
  IF n = NaN THEN <<"N", "a", "N">>
  ELSE IF n < 10 THEN <<DigitOf[n]>>
  ELSE NumberToString(n \div 10) \o <<DigitOf[n % 10]>>

\* ERROR_MESSAGES.RATE_LIMIT(modelId, timeInSeconds)
ERROR_MESSAGES_RATE_LIMIT(modelId, timeInSeconds) ==
  <<"R", "a", "t", "e", " ", "l", "i", "m", "i", "t", " ", "r", "e", "a", "c",
    "h", "e", "d", " ", "f", "o", "r", " ">>
    \o CharsOf[modelId]
    \o <<".", " ", "T", "r", "y", " ", "a", "g", "a", "i", "n", " ", "i", "n",
         " ">>
    \o NumberToString(timeInSeconds)
    \o <<" ", "s", "e", "c", "o", "n", "d", "s", ".">>

\* new GeminiError(message, status, code, isRateLimit, isRetriable), without
\* the message
GeminiError(status, code, isRateLimit, isRetriable) ==
  [status |-> status, code |-> code, isRateLimit |-> isRateLimit,
   isRetriable |-> isRetriable]

\* handleApiError, for an error with that message; the status of an error
\* that is no axios error is undefined (-1)
handleApiError(error, message) ==
  IF error.isAxiosError
  THEN CASE error.status = 400 -> GeminiError(error.status, "INVALID_REQUEST", FALSE, FALSE)
         [] error.status = 401 -> GeminiError(error.status, "UNAUTHORIZED", FALSE, FALSE)
         [] error.status = 403 -> GeminiError(error.status, "FORBIDDEN", FALSE, FALSE)
         [] error.status = 404 -> GeminiError(error.status, "NOT_FOUND", FALSE, FALSE)
         [] error.status = 429 -> GeminiError(error.status, "RATE_LIMIT_EXCEEDED", TRUE, TRUE)
         [] error.status \in 500..503 -> GeminiError(error.status, "SERVER_ERROR", FALSE, TRUE)
         [] OTHER -> GeminiError(error.status, "API_ERROR", FALSE, error.status >= 500)
  ELSE LET rateLimit == Includes(message, <<"r", "a", "t", "e", " ", "l", "i", "m", "i", "t">>)
       IN  GeminiError(-1, "UNKNOWN_ERROR", rateLimit, rateLimit)

\* formatErrorResponse(error).metadata
formatErrorResponse(error, message) ==
  LET geminiError == handleApiError(error, message)
  IN  [isError |-> TRUE,
       metadata |-> [errorCode |-> geminiError.code, status |-> geminiError.status,
                     isRetriable |-> geminiError.isRetriable]]

\* ------------------------------------------------------------------------
\* Tool handlers: handleSearch (handlers/search.ts), handleReason,
\* handleAnalyzeFile (handlers/file-analysis.ts), and handleSearch,
\* handleProcess and handleAnalyze of handlers/unified-gemini.ts
\* ------------------------------------------------------------------------

Tools ==
  {"handleSearch", "handleReason", "handleAnalyzeFile",
   "unified.handleSearch", "handleProcess", "handleAnalyze"}

\* request.params.arguments: undefined, or an object.  text is the argument
\* query of handleSearch, problem of handleReason and content of
\* handleProcess; modelId is the override (model_id in unified-gemini.ts),
\* enableThinking the thinking flag (enable_thinking in unified-gemini.ts)
Arguments ==
  {Undefined} \cup
  [kind : {"object"},
   text : {Undefined, Str("text"), Num},
   file_path : {Undefined, PathOf(PATH_TXT), Num},
   modelId : {Undefined, Str(FLASH), Str(UNKNOWN_ID)},
   enableThinking : {Undefined, Bool(TRUE)},
   highVolume : {Undefined, Bool(TRUE)}]

\* new McpError(ErrorCode.<code>, ...), thrown out of the handler
Thrown(code) == [kind |-> "thrown", error |-> [type |-> "McpError", code |-> code]]

\* the value formatErrorResponse(error) and the unified handlers' catch
\* blocks return: { content, isError: true }
Failure == [kind |-> "returned", isError |-> TRUE]

\* the value formatResponse(response, ...) returns
Success == [kind |-> "returned", isError |-> FALSE]

\* no request is being served
IdleHandler ==
  [pc |-> "idle", tool |-> "", args |-> Undefined, modelId |-> "",
   \* history: what the handler has done so far ("select": a model was
   \* chosen, "read": a file read was started, "controller": executeWithRetry
   \* was called, "upstream": axios.post was called by the handler itself),
   \* and the kind of failure that ended it
   events |-> {}, cause |-> "none", result |-> NoOutcome]

\* the handler ends
Done(h, cause, result) == [h EXCEPT !.pc = "done", !.cause = cause, !.result = result]

\* MODELS[modelId] is falsy
NoModel(modelId) == modelId \notin DOMAIN MODELS \cup InheritedIds

\* selectModelForSearch
selectModelForSearch(args) ==
  IF Truthy(args.modelId) THEN args.modelId.value
  ELSE IF Truthy(args.enableThinking) THEN config_getModelForTask(COMPLEX_REASONING)
  ELSE IF Truthy(args.highVolume) THEN config_getModelForTask(GENERAL_SEARCH)
  ELSE config_getModelForTask(GENERAL_SEARCH)

\* validateModelCapabilities for a registered model: the capability whose
\* absence makes it throw, "none" when it returns
validateModelCapabilities(modelId, args) ==
  IF Truthy(args.enableThinking) /\ ~MODELS[modelId].capabilities.thinking
  THEN "thinking"
  ELSE IF ~Truthy(args.highVolume) /\ ~MODELS[modelId].capabilities.search
  THEN "search"
  ELSE "none"

\* handleSearch up to the call of executeWithRetry
handleSearch(args) ==
  LET h == [IdleHandler EXCEPT !.tool = "handleSearch", !.args = args]
  IN  IF args.kind = "undefined" \/ TypeOf(args.text) # "string"
      THEN Done(h, "validation", Thrown("InvalidParams"))
      ELSE LET modelId == selectModelForSearch(args)
               h1 == [h EXCEPT !.modelId = modelId, !.events = {"select"}]
           IN  IF NoModel(modelId) THEN Done(h1, "unknown_model", Thrown("InvalidParams"))
               \* validateModelCapabilities: model.capabilities is undefined
               \* for an inherited member, a TypeError
               ELSE IF modelId \in InheritedIds THEN Done(h1, "type_error", Failure)
               ELSE IF validateModelCapabilities(modelId, args) # "none"
                    THEN Done(h1, "capability", Thrown("InvalidParams"))
               ELSE [h1 EXCEPT !.pc = "controller", !.events = @ \cup {"controller"}]

\* handleReason up to the call of executeWithRetry
handleReason(args) ==
  LET h == [IdleHandler EXCEPT !.tool = "handleReason", !.args = args]
  IN  IF args.kind = "undefined" \/ TypeOf(args.text) # "string"
      THEN Done(h, "validation", Thrown("InvalidParams"))
      ELSE LET modelId == IF Truthy(args.modelId) THEN args.modelId.value
                          ELSE config_getModelForTask(COMPLEX_REASONING)
               h1 == [h EXCEPT !.modelId = modelId, !.events = {"select"}]
           IN  IF NoModel(modelId) THEN Done(h1, "unknown_model", Thrown("InvalidParams"))
               ELSE [h1 EXCEPT !.pc = "controller", !.events = @ \cup {"controller"}]

\* handleAnalyzeFile up to the await of fs.readFile
handleAnalyzeFile(args) ==
  LET h == [IdleHandler EXCEPT !.tool = "handleAnalyzeFile", !.args = args]
  IN  IF args.kind = "undefined" \/ TypeOf(args.file_path) # "string"
      THEN Done(h, "validation", Thrown("InvalidParams"))
      ELSE LET modelId == IF Truthy(args.modelId) THEN args.modelId.value
                          ELSE config_getModelForTask(FILE_ANALYSIS)
               h1 == [h EXCEPT !.modelId = modelId, !.events = {"select"}]
           IN  IF NoModel(modelId) THEN Done(h1, "unknown_model", Thrown("InvalidParams"))
               ELSE IF modelId \in InheritedIds THEN Done(h1, "type_error", Failure)
               ELSE IF ~MODELS[modelId].capabilities.multimodal
                    THEN Done(h1, "capability", Thrown("InvalidParams"))
               ELSE [h1 EXCEPT !.pc = "reading", !.events = @ \cup {"read"}]

\* handleSearch of unified-gemini.ts up to its first await: of the file read
\* inside buildSearchRequest when file_path is truthy, else of axios.post
unified_handleSearch(args) ==
  LET h == [IdleHandler EXCEPT !.tool = "unified.handleSearch", !.args = args]
  IN  IF args.kind = "undefined" \/ TypeOf(args.text) # "string"
      THEN Done(h, "validation", Thrown("InvalidParams"))
      ELSE LET modelId ==
                 selectModel([modelId |-> args.modelId,
                              thinking |-> Bool(Truthy(args.enableThinking)),
                              searchRequired |-> Bool(TRUE),
                              costEfficient |-> Undefined,
                              filePath |-> args.file_path,
                              taskType |-> Str(GENERAL_SEARCH)])
               h1 == [h EXCEPT !.modelId = modelId, !.events = {"select"}]
           IN  IF Truthy(args.file_path)
               THEN [h1 EXCEPT !.pc = "reading", !.events = @ \cup {"read"}]
               ELSE [h1 EXCEPT !.pc = "upstream", !.events = @ \cup {"upstream"}]

\* handleProcess up to its first await: of the file read inside
\* buildProcessingRequest when file_path is truthy, else of axios.post
handleProcess(args) ==
  LET h == [IdleHandler EXCEPT !.tool = "handleProcess", !.args = args]
  IN  IF args.kind = "undefined"
         \/ (TypeOf(args.text) # "string" /\ ~Truthy(args.file_path))
      THEN Done(h, "validation", Thrown("InvalidParams"))
      ELSE LET modelId == IF Truthy(args.modelId) THEN args.modelId.value ELSE FLASH_LITE
               h1 == [h EXCEPT !.modelId = modelId, !.events = {"select"}]
           IN  IF Truthy(args.file_path)
               THEN [h1 EXCEPT !.pc = "reading", !.events = @ \cup {"read"}]
               ELSE [h1 EXCEPT !.pc = "upstream", !.events = @ \cup {"upstream"}]

\* handleAnalyze up to the await of the file read inside buildAnalysisRequest
handleAnalyze(args) ==
  LET h == [IdleHandler EXCEPT !.tool = "handleAnalyze", !.args = args]
  IN  IF args.kind = "undefined" \/ ~Truthy(args.file_path)
      THEN Done(h, "validation", Thrown("InvalidParams"))
      ELSE IF ~Truthy(args.modelId) /\ TypeOf(args.file_path) # "string"
           \* selectModel -> getModelForFile -> path.extname(42): a TypeError
           THEN Done([h EXCEPT !.events = {"select"}], "type_error", Failure)
      ELSE LET modelId ==
                 IF Truthy(args.modelId) THEN args.modelId.value
                 ELSE selectModel([modelId |-> Undefined, thinking |-> Undefined,
                                   searchRequired |-> Undefined,
                                   costEfficient |-> Undefined,
                                   filePath |-> args.file_path,
                                   taskType |-> Str(FILE_ANALYSIS)])
           IN  [h EXCEPT !.modelId = modelId, !.pc = "reading",
                         !.events = {"select", "read"}]

\* the handler of each tool
HandlerOf(tool, args) ==
  CASE tool = "handleSearch" -> handleSearch(args)
    [] tool = "handleReason" -> handleReason(args)
    [] tool = "handleAnalyzeFile" -> handleAnalyzeFile(args)
    [] tool = "unified.handleSearch" -> unified_handleSearch(args)
    [] tool = "handleProcess" -> handleProcess(args)
    [] tool = "handleAnalyze" -> handleAnalyze(args)

\* ------------------------------------------------------------------------
\* State
\* ------------------------------------------------------------------------

VARIABLES
  now,                \* Date.now()
  ticks,              \* number of clock advances so far
  requestTimestamps,  \* RateLimitManager.requestTimestamps: Map<string, number[]>
  call,               \* per caller: the frame of its executeWithRetry invocation
  recorded,           \* history: the timestamps recordRequest pushed, per model,
                      \* that are at most 60 s old
  overlapped,         \* history: models for which two invocations were in flight at once
  records,            \* number of direct calls of recordRequest so far
  options,            \* the ModelSelectionOptions of the call of selectModel
  selected,           \* what selectModel returned for options
  backoff,            \* the last call of calculateBackoff: arguments and result
  handler,            \* the frame of the tool handler that serves the request
  invoked             \* history, kept for the single caller of SpecSolo: the times
                      \* at which executeWithRetry invoked the operation, per
                      \* model, that are at most 60 s old

vars == <<now, ticks, requestTimestamps, call, recorded, overlapped, records,
          options, selected, backoff, handler, invoked>>

Init ==
  /\ now = 0
  /\ ticks = 0
  /\ requestTimestamps = <<>>
  /\ call = [p \in Procs |-> IdleCall]
  /\ recorded = [m \in AllIds |-> <<>>]
  /\ overlapped = {}
  /\ records = 0
  /\ options = [modelId |-> Undefined, thinking |-> Undefined,
                searchRequired |-> Undefined, costEfficient |-> Undefined,
                filePath |-> Undefined, taskType |-> Undefined]
  /\ selected = NoSelection
  /\ backoff = NoBackoff
  /\ handler = IdleHandler
  /\ invoked = [m \in AllIds |-> <<>>]

\* length of the window of modelId in the map ts (0 when it has none)
WindowLen(ts, modelId) == IF modelId \in DOMAIN ts THEN Len(ts[modelId]) ELSE 0

\* the timestamps a push added to the window of modelId, from map old to map new
Pushed(old, new, modelId) ==
  SubSeq(new[modelId], WindowLen(old, modelId) + 1, Len(new[modelId]))

\* the invocation of caller p is suspended at an await
InFlight(p) == call[p].pc \in {"awaiting", "sleeping"}


\* ------------------------------------------------------------------------
\* executeWithRetry
\* ------------------------------------------------------------------------

\* the catch block backing off while retries <= maxRetries
Catch_RetryAtLimit(c, error, rnd) ==
  IF isRateLimitError(error) /\ c.retries <= MAX_RETRIES
  THEN LET backoffTime == calculateBackoff(c.retries, rnd)
       IN  [c EXCEPT !.pc = "sleeping", !.sleepLeft = backoffTime,
                     !.sleeps = @ + 1, !.backoffs = Append(@, c.retries)]
  ELSE [c EXCEPT !.pc = "failed", !.outcome = [kind |-> "thrown", error |-> error]]

\* the catch block, for caller frame c that caught error: back off, or rethrow
Catch(c, error, rnd) ==
  IF isRateLimitError(error) /\ c.retries < MAX_RETRIES
  THEN LET backoffTime == calculateBackoff(c.retries, rnd)
       IN  [c EXCEPT !.pc = "sleeping", !.sleepLeft = backoffTime,
                     !.sleeps = @ + 1, !.backoffs = Append(@, c.retries)]
  ELSE [c EXCEPT !.pc = "failed", !.outcome = [kind |-> "thrown", error |-> error]]

\* LoopTop whose admission check counts the invocations in flight for the
\* model as taken slots
LoopTop_Reserving(c, rnd) ==
  IF ~(c.retries <= MAX_RETRIES)
  THEN [frame |-> [c EXCEPT !.pc = "failed",
                     !.outcome = [kind |-> "thrown", error |-> MaxRetriesError]],
        ts |-> requestTimestamps]
  ELSE LET can == canMakeRequest(requestTimestamps, c.modelId, now)
           reserved == Cardinality({q \in Procs : InFlight(q) /\ call[q].modelId = c.modelId})
           free == can.ok /\ (c.modelId \in DOMAIN MODELS =>
                     WindowLen(can.ts, c.modelId) + reserved < MODELS[c.modelId].freeRpm)
       IN  IF ~free /\ c.retries = 0
           THEN LET slot == getTimeUntilNextSlot(can.ts, c.modelId, now)
                    waitTimeSeconds == CeilDiv(slot.wait, 1000)
                IN  [frame |-> Catch([c EXCEPT !.waitTime = slot.wait],
                                     RateLimitError(waitTimeSeconds), rnd),
                     ts |-> slot.ts]
           ELSE [frame |-> [c EXCEPT !.pc = "awaiting", !.attempts = @ + 1,
                              !.admitLen = IF c.retries = 0
                                           THEN Len(can.ts[c.modelId]) ELSE -1],
                 ts |-> can.ts]

\* LoopTop whose admission check also rejects a retry
LoopTop_RecheckOnRetry(c, rnd) ==
  IF ~(c.retries <= MAX_RETRIES)
  THEN [frame |-> [c EXCEPT !.pc = "failed",
                     !.outcome = [kind |-> "thrown", error |-> MaxRetriesError]],
        ts |-> requestTimestamps]
  ELSE LET can == canMakeRequest(requestTimestamps, c.modelId, now)
       IN  IF ~can.ok
           THEN LET slot == getTimeUntilNextSlot(can.ts, c.modelId, now)
                    waitTimeSeconds == CeilDiv(slot.wait, 1000)
                IN  [frame |-> Catch([c EXCEPT !.waitTime = slot.wait],
                                     RateLimitError(waitTimeSeconds), rnd),
                     ts |-> slot.ts]
           ELSE [frame |-> [c EXCEPT !.pc = "awaiting", !.attempts = @ + 1,
                              !.admitLen = IF c.retries = 0
                                           THEN Len(can.ts[c.modelId]) ELSE -1],
                 ts |-> can.ts]

\* one pass of the while loop up to the await of apiCall(), for caller frame c
\* (c.retries already set): the new frame and the new timestamp map
LoopTop(c, rnd) ==
  IF ~(c.retries <= MAX_RETRIES)
  THEN [frame |-> [c EXCEPT !.pc = "failed",
                     !.outcome = [kind |-> "thrown", error |-> MaxRetriesError]],
        ts |-> requestTimestamps]
  ELSE LET can == canMakeRequest(requestTimestamps, c.modelId, now)
       IN  IF ~can.ok /\ c.retries = 0
           THEN LET slot == getTimeUntilNextSlot(can.ts, c.modelId, now)
                    waitTimeSeconds == CeilDiv(slot.wait, 1000)
                IN  [frame |-> Catch([c EXCEPT !.waitTime = slot.wait],
                                     RateLimitError(waitTimeSeconds), rnd),
                     ts |-> slot.ts]
           ELSE [frame |-> [c EXCEPT !.pc = "awaiting", !.attempts = @ + 1,
                              !.admitLen = IF c.retries = 0
                                           THEN Len(can.ts[c.modelId]) ELSE -1],
                 ts |-> can.ts]

\* a caller enters executeWithRetry(modelId, apiCall) and runs to its first await
Start(p, modelId) ==
  /\ call[p].pc = "idle"
  /\ \E rnd \in RandomValues :
       LET top == LoopTop([IdleCall EXCEPT !.modelId = modelId], rnd)
       IN  /\ call' = [call EXCEPT ![p] = top.frame]
           /\ requestTimestamps' = top.ts
  /\ overlapped' = IF \E q \in Procs \ {p} : InFlight(q) /\ call[q].modelId = modelId
                   THEN overlapped \cup {modelId} ELSE overlapped
  /\ UNCHANGED <<options, selected, backoff, handler, invoked, now, ticks, recorded, records>>

\* apiCall() resolves: record the request and return the response
Resolve(p, response) ==
  /\ call[p].pc = "awaiting"
  /\ requestTimestamps' = recordRequest(requestTimestamps, call[p].modelId, now)
  /\ recorded' = [recorded EXCEPT ![call[p].modelId] =
                    @ \o Pushed(requestTimestamps, requestTimestamps', call[p].modelId)]
  /\ call' = [call EXCEPT ![p] =
               [@ EXCEPT !.pc = "returned", !.admitLen = -1,
                         !.appended = @ + Len(Pushed(requestTimestamps,
                                                     requestTimestamps', call[p].modelId)),
                         !.settled = [kind |-> "resolved", value |-> response],
                         !.outcome = [kind |-> "returned", value |-> response]]]
  /\ UNCHANGED <<options, selected, backoff, handler, invoked, now, ticks, overlapped, records>>

\* apiCall() rejects: the catch block decides
Reject(p, error) ==
  /\ call[p].pc = "awaiting"
  /\ \E rnd \in RandomValues :
       call' = [call EXCEPT ![p] =
                 Catch([call[p] EXCEPT !.admitLen = -1,
                                       !.settled = [kind |-> "rejected", error |-> error]],
                       error, rnd)]
  /\ UNCHANGED <<options, selected, backoff, handler, invoked, now, ticks, requestTimestamps, recorded, overlapped, records>>

\* Wake without retries++
Wake_NoIncrement(p) ==
  /\ call[p].pc = "sleeping"
  /\ call[p].sleepLeft = 0
  /\ \E rnd \in RandomValues :
       LET top == LoopTop(call[p], rnd)
       IN  /\ call' = [call EXCEPT ![p] = top.frame]
           /\ requestTimestamps' = top.ts
  /\ UNCHANGED <<options, selected, backoff, handler, invoked, now, ticks, recorded, overlapped, records>>

\* the backoff timer fires: retries++ and the next pass of the loop
Wake(p) ==
  /\ call[p].pc = "sleeping"
  /\ call[p].sleepLeft = 0
  /\ \E rnd \in RandomValues :
       LET top == LoopTop([call[p] EXCEPT !.retries = @ + 1], rnd)
       IN  /\ call' = [call EXCEPT ![p] = top.frame]
           /\ requestTimestamps' = top.ts
  /\ UNCHANGED <<options, selected, backoff, handler, invoked, now, ticks, recorded, overlapped, records>>

\* the caller has consumed the result or the exception of its invocation
Finish(p) ==
  /\ call[p].pc \in {"returned", "failed"}
  /\ call' = [call EXCEPT ![p] = IdleCall]
  /\ UNCHANGED <<options, selected, backoff, handler, invoked, now, ticks, requestTimestamps, recorded, overlapped, records>>

\* time passes between synchronous segments; the timers of sleep() run down,
\* and the recorded timestamps older than 60 s leave the history (the clock
\* never goes back, so they are in no later window)
Tick(d) ==
  /\ ticks < MaxTicks
  /\ now' = now + d
  /\ ticks' = ticks + 1
  /\ call' = [p \in Procs |-> [call[p] EXCEPT !.sleepLeft = Max(0, @ - d)]]
  /\ recorded' = [m \in AllIds |-> FilterGE(recorded[m], now' - 60 * 1000)]
  /\ invoked' = [m \in AllIds |-> FilterGE(invoked[m], now' - 60 * 1000)]
  /\ UNCHANGED <<options, selected, backoff, handler, requestTimestamps, overlapped, records>>

Next ==
  \/ \E p \in Procs, modelId \in ModelIds : Start(p, modelId)
  \/ \E p \in Procs, response \in Responses : Resolve(p, response)
  \/ \E p \in Procs, error \in ApiErrors : Reject(p, error)
  \/ \E p \in Procs : Wake(p)
  \/ \E p \in Procs : Finish(p)
  \/ \E d \in ClockSteps : Tick(d)

Spec == Init /\ [][Next]_vars

\* ------------------------------------------------------------------------
\* The public methods called directly
\* ------------------------------------------------------------------------

ApiCanMakeRequest(modelId) ==
  /\ requestTimestamps' = canMakeRequest(requestTimestamps, modelId, now).ts
  /\ UNCHANGED <<options, selected, backoff, handler, invoked, now, ticks, call, recorded, overlapped, records>>

ApiRecordRequest(modelId) ==
  /\ records < MaxRecords
  /\ records' = records + 1
  /\ requestTimestamps' = recordRequest(requestTimestamps, modelId, now)
  /\ recorded' = [recorded EXCEPT ![modelId] =
                    @ \o Pushed(requestTimestamps, requestTimestamps', modelId)]
  /\ UNCHANGED <<options, selected, backoff, handler, invoked, now, ticks, call, overlapped>>

ApiGetTimeUntilNextSlot(modelId) ==
  /\ requestTimestamps' = getTimeUntilNextSlot(requestTimestamps, modelId, now).ts
  /\ UNCHANGED <<options, selected, backoff, handler, invoked, now, ticks, call, recorded, overlapped, records>>

NextApi ==
  \/ \E modelId \in ModelIds : ApiCanMakeRequest(modelId)
  \/ \E modelId \in ModelIds : ApiRecordRequest(modelId)
  \/ \E modelId \in ModelIds : ApiGetTimeUntilNextSlot(modelId)
  \/ \E d \in ClockSteps : Tick(d)

SpecApi == Init /\ [][NextApi]_vars

\* ------------------------------------------------------------------------
\* executeWithRetry called with identifiers outside the registry
\* ------------------------------------------------------------------------

NextUnknown ==
  \/ \E p \in Procs, modelId \in UnknownIds : Start(p, modelId)
  \/ \E p \in Procs, response \in Responses : Resolve(p, response)
  \/ \E p \in Procs, error \in ApiErrors : Reject(p, error)
  \/ \E p \in Procs : Wake(p)
  \/ \E p \in Procs : Finish(p)
  \/ \E d \in ClockSteps : Tick(d)

SpecUnknown == Init /\ [][NextUnknown]_vars

\* ------------------------------------------------------------------------
\* executeWithRetry called by a single caller, one invocation after the
\* other, with the history of the operation's invocations
\* ------------------------------------------------------------------------

\* the single caller
SoloProc == 1

\* the history of operation invocations after a pass of the loop that took
\* the frame of the caller from c0 to c1: the pass called apiCall() when it
\* counted an attempt
InvokedAfter(c0, c1) ==
  IF c1.attempts > c0.attempts
  THEN [invoked EXCEPT ![c1.modelId] = Append(@, now)]
  ELSE invoked

\* the caller enters executeWithRetry and runs to its first await
SoloStart(modelId) ==
  /\ call[SoloProc].pc = "idle"
  /\ Len(invoked[modelId]) < MaxInvocations
  /\ \E rnd \in RandomValues :
       LET top == LoopTop([IdleCall EXCEPT !.modelId = modelId], rnd)
       IN  /\ call' = [call EXCEPT ![SoloProc] = top.frame]
           /\ requestTimestamps' = top.ts
           /\ invoked' = InvokedAfter(IdleCall, top.frame)
  /\ UNCHANGED <<options, selected, backoff, handler, now, ticks, recorded, overlapped,
                 records>>

\* the backoff timer fires: retries++ and the next pass of the loop
SoloWake ==
  /\ call[SoloProc].pc = "sleeping"
  /\ call[SoloProc].sleepLeft = 0
  /\ \E rnd \in RandomValues :
       LET top == LoopTop([call[SoloProc] EXCEPT !.retries = @ + 1], rnd)
       IN  /\ call' = [call EXCEPT ![SoloProc] = top.frame]
           /\ requestTimestamps' = top.ts
           /\ invoked' = InvokedAfter(call[SoloProc], top.frame)
  /\ UNCHANGED <<options, selected, backoff, handler, now, ticks, recorded, overlapped,
                 records>>

NextSolo ==
  \/ \E modelId \in ModelIds : SoloStart(modelId)
  \/ \E response \in Responses : Resolve(SoloProc, response)
  \/ \E error \in ApiErrors : Reject(SoloProc, error)
  \/ SoloWake
  \/ Finish(SoloProc)
  \/ \E d \in ClockSteps : Tick(d)

SpecSolo == Init /\ [][NextSolo]_vars

\* ------------------------------------------------------------------------
\* The controller used for two registered models at once: executeWithRetry
\* by one caller, interleaved with the public methods called directly
\* ------------------------------------------------------------------------

\* the two models
PairIds == {FLASH, FLASH_THINKING}

\* the caller of executeWithRetry
PairProc == 1

NextPair ==
  \/ Start(PairProc, FLASH_THINKING)
  \/ \E response \in Responses : Resolve(PairProc, response)
  \/ \E error \in ApiErrors : Reject(PairProc, error)
  \/ Wake(PairProc)
  \/ Finish(PairProc)
  \/ ApiCanMakeRequest(FLASH)
  \/ ApiRecordRequest(FLASH)
  \/ ApiGetTimeUntilNextSlot(FLASH)
  \/ \E d \in ClockSteps : ticks < MaxPairTicks /\ Tick(d)

SpecPair == Init /\ [][NextPair]_vars

\* ------------------------------------------------------------------------
\* calculateBackoff called as the catch block calls it
\* ------------------------------------------------------------------------

\* the retry counts the catch block passes: it backs off only while
\* retries < MAX_RETRIES
BackoffRetries == 0..(MAX_RETRIES - 1)

\* every value of Math.random(), in thousandths
AllRandomValues == 0..999

CalculateBackoff(retry, rnd) ==
  /\ backoff = NoBackoff
  /\ backoff' = [retry |-> retry, rnd |-> rnd, ms |-> calculateBackoff(retry, rnd)]
  /\ UNCHANGED <<now, ticks, requestTimestamps, call, recorded, overlapped,
                 records, options, selected, handler, invoked>>

NextBackoff ==
  \E retry \in BackoffRetries, rnd \in AllRandomValues : CalculateBackoff(retry, rnd)

SpecBackoff == Init /\ [][NextBackoff]_vars

\* ------------------------------------------------------------------------
\* A tool handler serving one request
\* ------------------------------------------------------------------------

\* the caller of executeWithRetry that is the handler
HandlerProc == 1

\* rateLimitManager.executeWithRetry(modelId, ...) entered from the handler,
\* up to its first await
EnterController(modelId) ==
  \E rnd \in RandomValues :
    LET top == LoopTop([IdleCall EXCEPT !.modelId = modelId], rnd)
    IN  /\ call' = [call EXCEPT ![HandlerProc] = top.frame]
        /\ requestTimestamps' = top.ts

\* a request arrives: the handler runs to its first await or to its end
HandlerCall(tool, args) ==
  /\ handler.pc = "idle"
  /\ handler' = HandlerOf(tool, args)
  /\ IF handler'.pc = "controller"
     THEN EnterController(handler'.modelId)
     ELSE UNCHANGED <<call, requestTimestamps>>
  /\ UNCHANGED <<now, ticks, recorded, overlapped, records, options, selected, backoff,
                 invoked>>

\* fs.readFile settles.  A path that is not a string is rejected by readFile.
\* handleAnalyzeFile goes on to executeWithRetry, or wraps the error in an
\* McpError and throws it; handleProcess and handleAnalyze go on to
\* executeRequest (axios.post), or return the failure value
HandlerReadFile(ok) ==
  /\ handler.pc = "reading"
  /\ ok => TypeOf(handler.args.file_path) = "string"
  /\ IF handler.tool = "handleAnalyzeFile"
     THEN IF ok
          THEN /\ handler' = [handler EXCEPT !.pc = "controller",
                                             !.events = @ \cup {"controller"}]
               /\ EnterController(handler.modelId)
          ELSE /\ handler' = Done(handler, "read", Thrown("InternalError"))
               /\ UNCHANGED <<call, requestTimestamps>>
     ELSE /\ handler' = IF ok
                        THEN [handler EXCEPT !.pc = "upstream",
                                             !.events = @ \cup {"upstream"}]
                        ELSE Done(handler, "read", Failure)
          /\ UNCHANGED <<call, requestTimestamps>>
  /\ UNCHANGED <<now, ticks, recorded, overlapped, records, options, selected, backoff,
                 invoked>>

\* executeRequest: axios.post resolves, the handler returns formatResponse(...)
HandlerUpstreamResolve(response) ==
  /\ handler.pc = "upstream"
  /\ handler' = Done(handler, "none", Success)
  /\ UNCHANGED <<now, ticks, requestTimestamps, call, recorded, overlapped, records,
                 options, selected, backoff, invoked>>

\* executeRequest: axios.post rejects, executeRequest throws an McpError
\* (InvalidParams for a 429 response, InternalError otherwise) and the
\* handler's catch block rethrows it
HandlerUpstreamReject(error) ==
  /\ handler.pc = "upstream"
  /\ handler' = Done(handler, "upstream",
                     Thrown(IF error.isAxiosError /\ error.status = 429
                            THEN "InvalidParams" ELSE "InternalError"))
  /\ UNCHANGED <<now, ticks, requestTimestamps, call, recorded, overlapped, records,
                 options, selected, backoff, invoked>>

\* executeWithRetry has returned or thrown.  handleSearch and handleReason
\* return formatErrorResponse(error) for what it threw; handleAnalyzeFile's
\* inner catch wraps every Error in an McpError, which the outer catch rethrows
HandlerSettle ==
  /\ handler.pc = "controller"
  /\ call[HandlerProc].pc \in {"returned", "failed"}
  /\ handler' =
       IF call[HandlerProc].pc = "returned" THEN Done(handler, "none", Success)
       ELSE LET error == call[HandlerProc].outcome.error
                cause == IF error.waitSeconds = -1 THEN "upstream" ELSE "controller"
            IN  IF handler.tool = "handleAnalyzeFile"
                THEN Done(handler, cause, Thrown("InternalError"))
                ELSE Done(handler, cause, Failure)
  /\ call' = [call EXCEPT ![HandlerProc] = IdleCall]
  /\ UNCHANGED <<now, ticks, requestTimestamps, recorded, overlapped, records,
                 options, selected, backoff, invoked>>

NextHandlers ==
  \/ \E tool \in Tools, args \in Arguments : HandlerCall(tool, args)
  \/ \E ok \in BOOLEAN : HandlerReadFile(ok)
  \/ \E response \in Responses : HandlerUpstreamResolve(response)
  \/ \E error \in ApiErrors : HandlerUpstreamReject(error)
  \/ HandlerSettle
  \/ \E response \in Responses : Resolve(HandlerProc, response)
  \/ \E error \in ApiErrors : Reject(HandlerProc, error)
  \/ Wake(HandlerProc)
  \/ \E d \in ClockSteps : Tick(d)

SpecHandlers == Init /\ [][NextHandlers]_vars

\* ------------------------------------------------------------------------
\* The selector called on its own
\* ------------------------------------------------------------------------

InitSelect ==
  /\ now = 0
  /\ ticks = 0
  /\ requestTimestamps = <<>>
  /\ call = [p \in Procs |-> IdleCall]
  /\ recorded = [m \in AllIds |-> <<>>]
  /\ overlapped = {}
  /\ records = 0
  /\ options \in OptionSet
  /\ selected = NoSelection
  /\ backoff = NoBackoff
  /\ handler = IdleHandler
  /\ invoked = [m \in AllIds |-> <<>>]

SelectModel ==
  /\ selected = NoSelection
  /\ selected' = selectModel(options)
  /\ UNCHANGED <<now, ticks, requestTimestamps, call, recorded, overlapped,
                 records, options, backoff, handler, invoked>>

NextSelect == SelectModel

SpecSelect == InitSelect /\ [][NextSelect]_vars

\* ------------------------------------------------------------------------
\* Properties of the controller
\* ------------------------------------------------------------------------

\* the models of the registry
Registered == DOMAIN MODELS

\* number of recorded timestamps of modelId within the trailing 60 s
InWindow(modelId) == CountGE(recorded[modelId], now - 60000)

\* C1: for every registered model, after any sequence of recordRequest calls
\* and clock advances, canMakeRequest at time now answers true exactly when
\* fewer than freeRpm of the model's recorded timestamps t have t >= now - 60000
C1_AdmitsIffWindowBelowQuota ==
  \A m \in Registered :
    canMakeRequest(requestTimestamps, m, now).ok
      <=> (InWindow(m) < MODELS[m].freeRpm)

\* C1 witness: a window that was filled to the quota has aged out (the stored
\* window still holds the old timestamps) and the model is admitted again
C1_Witness ==
  \E m \in Registered :
    /\ WindowLen(requestTimestamps, m) >= MODELS[m].freeRpm
    /\ InWindow(m) < MODELS[m].freeRpm
    /\ canMakeRequest(requestTimestamps, m, now).ok

\* C6: for every identifier, getTimeUntilNextSlot is >= 0 and is 0 exactly
\* when canMakeRequest at the same instant is true
C6_WaitZeroIffAdmitted ==
  \A m \in AllIds :
    LET wait == getTimeUntilNextSlot(requestTimestamps, m, now).wait
    IN  /\ wait >= 0
        /\ (wait = 0) <=> canMakeRequest(requestTimestamps, m, now).ok

\* C2: one invocation of executeWithRetry invokes the operation at most 6
\* times: the first attempt and at most MAX_RETRIES (5) more
C2_AtMostSixAttempts == \A p \in Procs : call[p].attempts <= 6

\* C2 witness: an invocation has made its sixth attempt
C2_Witness == \E p \in Procs : call[p].attempts = 6 /\ call[p].retries = 5

\* C3: an invocation that finds canMakeRequest false on entry fails at once
\* with the rate-limit error carrying the computed wait, without invoking the
\* operation, sleeping or recording a timestamp
C3_DeniedFailsFast ==
  [][\A p \in Procs :
       (/\ call[p].pc = "idle"
        /\ call'[p].pc # "idle"
        /\ ~canMakeRequest(requestTimestamps, call'[p].modelId, now).ok)
       => LET m == call'[p].modelId
              wait == getTimeUntilNextSlot(requestTimestamps, m, now).wait
          IN  /\ call'[p].pc = "failed"
              /\ call'[p].outcome =
                   [kind |-> "thrown", error |-> RateLimitError(CeilDiv(wait, 1000))]
              /\ call'[p].attempts = 0
              /\ call'[p].sleeps = 0
              /\ call'[p].appended = 0
              /\ recorded' = recorded
              /\ \A id \in AllIds :
                   WindowLen(requestTimestamps', id) <= WindowLen(requestTimestamps, id)
    ]_vars

\* C3 witness: an invocation for a registered model was denied on entry with
\* a wait still to go
C3_Witness ==
  \E p \in Procs :
    /\ call[p].pc = "failed"
    /\ call[p].modelId \in Registered
    /\ call[p].waitTime > 0
    /\ call[p].attempts = 0

\* C4: a failure of the operation that is not an upstream 429 response ends
\* the invocation there: it is thrown unchanged, with no attempt and no
\* backoff after it, at whatever retry count
C4_OtherFailurePropagates ==
  \A p \in Procs :
    LET c == call[p]
    IN  (/\ c.settled.kind = "rejected"
         /\ ~(c.settled.error.isAxiosError /\ c.settled.error.status = 429))
        => /\ c.pc = "failed"
           /\ c.outcome = [kind |-> "thrown", error |-> c.settled.error]
           /\ c.attempts = c.retries + 1
           /\ c.sleeps = c.retries

\* C4 witness: a 400 response on a retry ended the invocation
C4_Witness ==
  \E p \in Procs :
    /\ call[p].pc = "failed"
    /\ call[p].retries >= 1
    /\ call[p].settled.kind = "rejected"
    /\ call[p].settled.error.status = 400

\* C5: an invocation that returns has pushed exactly one timestamp and returns
\* what the operation resolved to; one that fails has pushed none
C5_OneTimestampPerSuccess ==
  \A p \in Procs :
    LET c == call[p]
    IN  /\ c.pc = "returned" =>
             /\ c.appended = 1
             /\ c.settled.kind = "resolved"
             /\ c.outcome = [kind |-> "returned", value |-> c.settled.value]
        /\ c.pc = "failed" => c.appended = 0

\* C5 witness: an invocation returned after 429 retries
C5_Witness ==
  \E p \in Procs :
    /\ call[p].pc = "returned"
    /\ call[p].retries >= 2
    /\ call[p].appended = 1

\* C7: for a model with quota q whose invocations do not overlap: a call
\* entered while q recorded calls are in the window fails fast, without
\* invoking the operation and with a positive wait-time hint; a call entered
\* when fewer are in the window (the window has elapsed) is admitted and
\* invokes the operation
C7_FullWindowDeniesWithPositiveHint ==
  [][\A p \in Procs :
       (/\ call[p].pc = "idle"
        /\ call'[p].pc # "idle"
        /\ call'[p].modelId \in Registered
        /\ call'[p].modelId \notin overlapped')
       => LET m == call'[p].modelId
          IN  IF InWindow(m) >= MODELS[m].freeRpm
              THEN /\ call'[p].pc = "failed"
                   /\ call'[p].attempts = 0
                   /\ call'[p].outcome.error.waitSeconds > 0
              ELSE /\ call'[p].pc = "awaiting"
                   /\ call'[p].attempts = 1
    ]_vars

\* C8: the admission check looks at the recorded timestamps only, never at
\* the invocations in flight: an invocation entered for a registered model
\* whose window is below the quota is admitted, whoever else is in flight
C8_AdmissionIgnoresInFlight ==
  [][\A p \in Procs :
       (/\ call[p].pc = "idle"
        /\ call'[p].pc # "idle"
        /\ call'[p].modelId \in Registered
        /\ InWindow(call'[p].modelId) < MODELS[call'[p].modelId].freeRpm)
       => /\ call'[p].pc = "awaiting"
          /\ call'[p].attempts = 1
    ]_vars

\* C8 witness: the window of a model holds more in-window timestamps than its
\* quota
C8_Witness ==
  \E m \in Registered :
    /\ InWindow(m) > MODELS[m].freeRpm
    /\ CountGE(requestTimestamps[m], now - 60000) > MODELS[m].freeRpm

\* C9: an invocation that has just passed its first admission check saw a
\* pruned window below the quota; and a model whose invocations never
\* overlapped has at most its quota of timestamps in the trailing 60 s
C9_QuotaHeldWithoutOverlap ==
  /\ \A p \in Procs :
       (call[p].pc = "awaiting" /\ call[p].retries = 0)
         => (call[p].admitLen >= 0 /\ call[p].admitLen < MODELS[call[p].modelId].freeRpm)
  /\ \A m \in Registered :
       m \notin overlapped =>
         /\ InWindow(m) <= MODELS[m].freeRpm
         /\ m \in DOMAIN requestTimestamps =>
              CountGE(requestTimestamps[m], now - 60000) <= MODELS[m].freeRpm

\* C9 witness: without overlap, a retried invocation has filled the window
\* to the quota
C9_Witness ==
  \E m \in Registered, p \in Procs :
    /\ m \notin overlapped
    /\ InWindow(m) = MODELS[m].freeRpm
    /\ call[p].pc = "returned"
    /\ call[p].modelId = m
    /\ call[p].retries >= 1

\* ------------------------------------------------------------------------
\* Properties of the selector
\* ------------------------------------------------------------------------

\* C10: selectModel returns the override identifier whenever one is present,
\* whatever the flags, the file or files and the task type, and whether or not
\* the registry knows the identifier
C10_OverrideWins ==
  (selected # NoSelection /\ options.modelId.kind = "string" /\ options.modelId.value # "")
    => selected = options.modelId.value

\* C10 witness: an override unknown to the registry was returned although
\* thinking and search were required and a code file was given
C10_Witness ==
  /\ selected = UNKNOWN_ID
  /\ options.modelId = Str(UNKNOWN_ID)
  /\ options.thinking = Bool(TRUE)
  /\ options.searchRequired = Bool(TRUE)
  /\ options.filePath = PathOf(PATH_PY)
  /\ options.taskType = Str(RAPID_PROCESSING)

\* no override and none of the three flags
NoOverride == ~Truthy(options.modelId)

NoFlags ==
  ~Truthy(options.thinking) /\ ~Truthy(options.searchRequired)
    /\ ~Truthy(options.costEfficient)

\* C11: without an override the first matching rule decides, in the order
\* thinking, search, cost efficiency, file(s), task type, default
C11_FirstMatchingRuleDecides ==
  (selected # NoSelection /\ NoOverride) =>
    /\ Truthy(options.thinking) => selected = FLASH_THINKING
    /\ (~Truthy(options.thinking) /\ Truthy(options.searchRequired)) => selected = FLASH
    /\ (~Truthy(options.thinking) /\ ~Truthy(options.searchRequired)
          /\ Truthy(options.costEfficient)) => selected = FLASH_LITE
    /\ (NoFlags /\ Truthy(options.filePath)) => selected = FileRule(options.filePath)
    /\ (NoFlags /\ ~Truthy(options.filePath) /\ Truthy(options.taskType))
         => selected = getModelForTask(options.taskType.value)
    /\ (NoFlags /\ ~Truthy(options.filePath) /\ ~Truthy(options.taskType))
         => selected = FLASH

\* C11 witness: search required together with cost efficiency, a code file and
\* a task type gave Flash
C11_Witness ==
  /\ selected = FLASH
  /\ NoOverride
  /\ ~Truthy(options.thinking)
  /\ options.searchRequired = Bool(TRUE)
  /\ options.costEfficient = Bool(TRUE)
  /\ options.filePath = PathOf(PATH_PY)
  /\ options.taskType = Str(RAPID_PROCESSING)

\* C12: with no override and thinking set, selectModel returns Flash Thinking
\* for every file, file list, task type and value of the other two flags
C12_ThinkingGivesFlashThinking ==
  (selected # NoSelection /\ NoOverride /\ options.thinking = Bool(TRUE))
    => selected = FLASH_THINKING

\* C12 witness: thinking was set together with search, cost efficiency, a list
\* holding an image and a text file, and the rapid-processing task
C12_Witness ==
  /\ selected = FLASH_THINKING
  /\ options.modelId = Undefined
  /\ options.thinking = Bool(TRUE)
  /\ options.searchRequired = Bool(TRUE)
  /\ options.costEfficient = Bool(TRUE)
  /\ options.filePath = ArrayOf(<<PATH_PNG, PATH_TXT>>)
  /\ options.taskType = Str(RAPID_PROCESSING)

\* C13: with no override and no flags, a single file is mapped by its
\* category: image and document -> Flash, code -> Flash Thinking, text ->
\* Flash-Lite, binary and anything else -> Flash; the task type changes nothing
C13_SingleFileByCategory ==
  (/\ selected # NoSelection
   /\ NoOverride
   /\ NoFlags
   /\ options.filePath.kind = "path"
   /\ options.filePath.value # <<>>)
  => LET category == getFileTypeCategory(options.filePath.value)
     IN  selected = CASE category = "image" -> FLASH
                      [] category = "document" -> FLASH
                      [] category = "code" -> FLASH_THINKING
                      [] category = "text" -> FLASH_LITE
                      [] OTHER -> FLASH

\* C13 witness: a code file given with the rapid-processing task was sent to
\* Flash Thinking
C13_Witness ==
  /\ selected = FLASH_THINKING
  /\ NoOverride
  /\ NoFlags
  /\ options.filePath = PathOf(PATH_PY)
  /\ getFileTypeCategory(PATH_PY) = "code"
  /\ options.taskType = Str(RAPID_PROCESSING)

\* the categories of the files of an array
CategoriesOf(files) == {getFileTypeCategory(files[i]) : i \in 1..Len(files)}

C15_TaskTable ==
  /\ (/\ selected # NoSelection
      /\ NoOverride
      /\ NoFlags
      /\ ~Truthy(options.filePath)
      /\ Truthy(options.taskType))
     => LET taskType == options.taskType.value
        IN  /\ taskType = GENERAL_SEARCH => selected = FLASH
            /\ taskType = COMPLEX_REASONING => selected = FLASH_THINKING
            /\ taskType = RAPID_PROCESSING => selected = FLASH_LITE
            /\ taskType = FILE_ANALYSIS => selected = FLASH
  /\ \A taskType \in TaskTypes :
       getModelForTask(taskType) = config_getModelForTask(taskType)

\* C15 witness: the rapid-processing task alone gave Flash-Lite
C15_Witness ==
  /\ selected = FLASH_LITE
  /\ NoOverride
  /\ NoFlags
  /\ ~Truthy(options.filePath)
  /\ options.taskType = Str(RAPID_PROCESSING)

\* ------------------------------------------------------------------------
\* Properties of the controller, continued
\* ------------------------------------------------------------------------

\* C16: an attempt that fails with an upstream server error (5xx) is retried
\* with the backoff of a 429 failure while retries remain: no invocation
\* fails on a 5xx response with fewer than MAX_RETRIES retries made
C16_ServerErrorRetried ==
  \A p \in Procs :
    LET c == call[p]
    IN  (/\ c.pc = "failed"
         /\ c.settled.kind = "rejected"
         /\ c.settled.error.isAxiosError
         /\ c.settled.error.status >= 500)
        => c.retries = MAX_RETRIES

\* C18: for an identifier outside the registry canMakeRequest is false in
\* every state, and an invocation of executeWithRetry for it fails on its
\* first attempt without invoking the operation and without creating or
\* changing a window
C18_UnknownModelFailsClosed ==
  /\ \A m \in UnknownIds : ~canMakeRequest(requestTimestamps, m, now).ok
  /\ \A m \in UnknownIds : m \notin DOMAIN requestTimestamps
  /\ \A p \in Procs :
       (call[p].pc # "idle" /\ call[p].modelId \in UnknownIds)
         => /\ call[p].pc = "failed"
            /\ call[p].attempts = 0
            /\ call[p].retries = 0
            /\ call[p].appended = 0

\* C17: for every retry count r the catch block uses, the delay lies within
\* [baseDelay * 2^r * (1 - jitter), baseDelay * 2^r * (1 + jitter)] clamped to
\* maxDelay, never exceeds maxDelay, and is at most every delay of retry
\* count r + 1, whatever the two jitter draws
C17_BackoffWithinJitterBand ==
  backoff # NoBackoff =>
    LET r == backoff.retry
        nominal == BASE_DELAY_MS * Pow2(r)
        low == Min(MAX_DELAY_MS, (nominal * (1000 - JITTER_FACTOR)) \div 1000)
        high == Min(MAX_DELAY_MS, (nominal * (1000 + JITTER_FACTOR)) \div 1000)
    IN  /\ low <= backoff.ms
        /\ backoff.ms <= high
        /\ backoff.ms <= MAX_DELAY_MS
        /\ (r + 1) \in BackoffRetries =>
             \A rnd \in AllRandomValues : backoff.ms <= calculateBackoff(r + 1, rnd)

\* C17 witness: the last retry count with the largest jitter draw gave a delay
\* above its nominal 16000 ms
C17_Witness ==
  /\ backoff.retry = MAX_RETRIES - 1
  /\ backoff.rnd = 999
  /\ backoff.ms > BASE_DELAY_MS * Pow2(MAX_RETRIES - 1)

\* ------------------------------------------------------------------------
\* Properties of the tool handlers
\* ------------------------------------------------------------------------

\* the required argument of the tool is missing or is not a string
InvalidArguments(tool, args) ==
  \/ args.kind = "undefined"
  \/ tool \in {"handleSearch", "handleReason", "unified.handleSearch"}
       /\ TypeOf(args.text) # "string"
  \/ tool \in {"handleAnalyzeFile", "handleAnalyze"} /\ TypeOf(args.file_path) # "string"
  \/ tool = "handleProcess" /\ TypeOf(args.text) # "string"
                            /\ TypeOf(args.file_path) # "string"

\* C19: a call whose required argument is missing or has the wrong type is
\* rejected with an invalid-argument error before a model is selected, a file
\* read, the controller consulted or an upstream request issued, and the
\* windows are unchanged
C19_InvalidInputRejectedFirst ==
  (handler.pc # "idle" /\ InvalidArguments(handler.tool, handler.args))
    => /\ handler.pc = "done"
       /\ handler.result = Thrown("InvalidParams")
       /\ handler.events = {}
       /\ call[HandlerProc] = IdleCall
       /\ requestTimestamps = <<>>

\* C20: a failure of the upstream call or of the controller reaches the
\* caller as a returned failure value marked isError; only invalid-argument,
\* unknown-model and capability rejections are thrown
C20_FailuresReturnedNotThrown ==
  handler.pc = "done" =>
    /\ handler.cause \in {"controller", "upstream"} => handler.result = Failure
    /\ handler.result.kind = "thrown"
         => handler.cause \in {"validation", "unknown_model", "capability"}

\* ------------------------------------------------------------------------
\* Properties of the selector, continued
\* ------------------------------------------------------------------------

\* how demanding a model is: extended reasoning (Flash Thinking) above
\* multimodal (Flash) above cost-efficient (Flash-Lite)
Demand(modelId) ==
  CASE modelId = FLASH_THINKING -> 3
    [] modelId = FLASH -> 2
    [] modelId = FLASH_LITE -> 1

\* C21: with no override and no flags, the model selectModel returns for a
\* list of files is at least as demanding as the model it returns for each
\* file of the list taken alone
C21_ListNotBelowAnyFile ==
  (/\ selected # NoSelection
   /\ NoOverride
   /\ NoFlags
   /\ options.filePath.kind = "array")
  => \A i \in 1..Len(options.filePath.value) :
       Demand(selected) >= Demand(getModelForFile(options.filePath.value[i]))

\* C27: with no override and no flags, a single file with the extension .csv,
\* .json or .xml selects Flash and one with the extension .txt or .md selects
\* Flash-Lite, the category being the one getFileTypeCategory computes
C27_StructuredTextToFlash ==
  (/\ selected # NoSelection
   /\ NoOverride
   /\ NoFlags
   /\ options.filePath.kind = "path"
   /\ options.filePath.value # <<>>)
  => LET extension == ToLowerCase(ExtName(options.filePath.value))
     IN  /\ extension \in {<<".", "c", "s", "v">>, <<".", "j", "s", "o", "n">>,
                           <<".", "x", "m", "l">>}
              => selected = FLASH
         /\ extension \in {<<".", "t", "x", "t">>, <<".", "m", "d">>}
              => selected = FLASH_LITE

\* ------------------------------------------------------------------------
\* Properties of the controller: retries, quota and isolation
\* ------------------------------------------------------------------------

\* C22: when the backoff sleep of an invocation ends, the next attempt
\* invokes the operation whatever the window of the model holds: the retry is
\* neither rejected nor put to sleep again, and all the admission check does
\* is drop the timestamps older than 60 s from the window of that model
C22_RetryIgnoresAdmission ==
  [][\A p \in Procs :
       (call[p].pc = "sleeping" /\ call'[p].pc # "sleeping")
       => LET m == call[p].modelId
          IN  /\ call'[p].pc = "awaiting"
              /\ call'[p].retries = call[p].retries + 1
              /\ call'[p].attempts = call[p].attempts + 1
              /\ call'[p].sleeps = call[p].sleeps
              /\ m \in DOMAIN requestTimestamps
              /\ requestTimestamps' =
                   [requestTimestamps EXCEPT ![m] = FilterGE(@, now - 60 * 1000)]
    ]_vars

\* C22 witness: a retry is awaiting the operation while the window of its
\* model, filled by another caller during the backoff, is at the quota
C22_Witness ==
  \E p \in Procs :
    /\ call[p].pc = "awaiting"
    /\ call[p].retries >= 1
    /\ call[p].modelId \in Registered
    /\ call[p].modelId \in DOMAIN requestTimestamps
    /\ CountGE(requestTimestamps[call[p].modelId], now - 60000)
         >= MODELS[call[p].modelId].freeRpm

\* C23: an invocation all of whose attempts fail with an upstream 429 makes
\* exactly 6 attempts and 5 backoff sleeps, the sleeps computed from the
\* retry counts 0, 1, 2, 3, 4 in that order, and ends by throwing the failure
\* of the last attempt; the error "Maximum retries reached" that follows the
\* loop is never thrown
C23_ExhaustedRetriesThrowLastFailure ==
  \A p \in Procs :
    LET c == call[p]
    IN  /\ c.outcome # [kind |-> "thrown", error |-> MaxRetriesError]
        /\ c.retries <= MAX_RETRIES
        /\ c.backoffs = [i \in 1..c.sleeps |-> i - 1]
        /\ (c.pc = "sleeping" /\ isRateLimitError(c.settled.error))
             => (c.attempts = c.sleeps /\ c.retries = c.sleeps - 1)
        /\ (c.pc = "failed" /\ c.settled.kind = "rejected" /\ isRateLimitError(c.settled.error))
             => /\ c.attempts = 6
                /\ c.sleeps = 5
                /\ c.backoffs = <<0, 1, 2, 3, 4>>
                /\ c.outcome = [kind |-> "thrown", error |-> c.settled.error]

\* C23 witness: an invocation failed after six attempts that all ended in a 429
C23_Witness ==
  \E p \in Procs :
    /\ call[p].pc = "failed"
    /\ call[p].attempts = 6
    /\ call[p].backoffs = <<0, 1, 2, 3, 4>>
    /\ isRateLimitError(call[p].settled.error)
    /\ call[p].outcome = [kind |-> "thrown", error |-> call[p].settled.error]

\* the error executeWithRetry throws when its first admission check denies
IsAdmissionDenial(error) ==
  ~error.isAxiosError /\ error.waitSeconds \notin {-1, -2}

\* C24: the failure executeWithRetry throws for a first-attempt admission
\* denial and the one it throws for an upstream 429 after the retries are
\* exhausted are both classified by the error handler as rate-limit errors:
\* code RATE_LIMIT_EXCEEDED, rate-limit and retriable
C24_RateLimitFailuresClassified ==
  \A p \in Procs :
    LET c == call[p]
    IN  (/\ c.pc = "failed"
         /\ \/ IsAdmissionDenial(c.outcome.error)
            \/ isRateLimitError(c.outcome.error) /\ c.retries = MAX_RETRIES)
        => LET error == c.outcome.error
               message == IF IsAdmissionDenial(error)
                          THEN ERROR_MESSAGES_RATE_LIMIT(c.modelId, error.waitSeconds)
                          ELSE <<>>
               geminiError == handleApiError(error, message)
               response == formatErrorResponse(error, message)
           IN  /\ geminiError.code = "RATE_LIMIT_EXCEEDED"
               /\ geminiError.isRateLimit
               /\ geminiError.isRetriable
               /\ response.metadata.errorCode = "RATE_LIMIT_EXCEEDED"
               /\ response.metadata.isRetriable

\* ------------------------------------------------------------------------
\* Properties of the tool handlers, continued
\* ------------------------------------------------------------------------

\* C25: a call whose resolved model identifier (an override included) is not
\* in the registry ends with the unknown-model error, thrown before a file is
\* read, the controller entered or an upstream request issued; no attempt and
\* no timestamp results from it
C25_UnknownModelRejectedFirst ==
  (/\ "select" \in handler.events
   /\ handler.modelId # ""
   /\ handler.modelId \notin Registered)
  => /\ handler.pc = "done"
     /\ handler.cause = "unknown_model"
     /\ handler.result = Thrown("InvalidParams")
     /\ handler.events = {"select"}
     /\ call[HandlerProc] = IdleCall
     /\ requestTimestamps = <<>>

\* C26: every upstream request of a handler is made by the controller's
\* executeWithRetry: no handler calls axios.post itself, and a call that
\* returns a response has entered the controller and left one timestamp in
\* the window of its model
C26_UpstreamOnlyThroughController ==
  /\ "upstream" \notin handler.events
  /\ (handler.pc = "done" /\ handler.result = Success)
       => /\ "controller" \in handler.events
          /\ WindowLen(requestTimestamps, handler.modelId) = 1

\* C30: in handleSearch of handlers/search.ts, the model chosen without an
\* override is registered and passes validateModelCapabilities, for every
\* combination of enableThinking and highVolume
C30_AutomaticModelPassesValidation ==
  (/\ handler.tool = "handleSearch"
   /\ ~InvalidArguments(handler.tool, handler.args)
   /\ ~Truthy(handler.args.modelId))
  => /\ handler.modelId = selectModelForSearch(handler.args)
     /\ handler.modelId \in Registered
     /\ validateModelCapabilities(handler.modelId, handler.args) = "none"
     /\ handler.cause # "capability"

\* ------------------------------------------------------------------------
\* Properties of the controller: invocations of the operation, isolation
\* ------------------------------------------------------------------------

\* C28: for a model whose invocations of executeWithRetry do not overlap, the
\* operation is invoked (first attempts, retries and attempts that fail all
\* counted) at most freeRpm times within any 60 seconds
C28_OperationCallsWithinQuota ==
  \A m \in Registered :
    m \notin overlapped
      => CountGE(invoked[m], now - 60 * 1000 + 1) <= MODELS[m].freeRpm

\* the window of model m in the map ts: whether there is one, and its
\* timestamps
WindowOf(ts, m) ==
  IF m \in DOMAIN ts THEN [exists |-> TRUE, stamps |-> ts[m]]
  ELSE [exists |-> FALSE, stamps |-> <<>>]

\* canMakeRequest, recordRequest and getTimeUntilNextSlot called now for an
\* identifier a (one of the two models, or one the registry does not know)
\* leave the window of every other model b as it is, and with it the
\* admission answer and the wait of b
MethodsIsolated ==
  \A b \in PairIds :
    LET window == WindowOf(requestTimestamps, b)
        ok == canMakeRequest(requestTimestamps, b, now).ok
        wait == getTimeUntilNextSlot(requestTimestamps, b, now).wait
    IN  \A a \in (PairIds \cup {UNKNOWN_ID}) \ {b} :
          \A after \in {canMakeRequest(requestTimestamps, a, now).ts,
                        recordRequest(requestTimestamps, a, now),
                        getTimeUntilNextSlot(requestTimestamps, a, now).ts} :
            /\ WindowOf(after, b) = window
            /\ canMakeRequest(after, b, now).ok = ok
            /\ getTimeUntilNextSlot(after, b, now).wait = wait

\* a step of an invocation of executeWithRetry for a model leaves the window
\* of every other model as it is, and no step changes two windows
StepsIsolated ==
  /\ \A p \in Procs :
       (call'[p] # call[p] /\ now' = now)
         => LET a == IF call[p].pc = "idle" THEN call'[p].modelId ELSE call[p].modelId
            IN  \A b \in AllIds \ {a} :
                  WindowOf(requestTimestamps', b) = WindowOf(requestTimestamps, b)
  /\ Cardinality({m \in AllIds :
                    WindowOf(requestTimestamps', m) # WindowOf(requestTimestamps, m)}) <= 1

\* C29: the windows are isolated per model: canMakeRequest, recordRequest,
\* getTimeUntilNextSlot and executeWithRetry for one model leave the window
\* of every other model unchanged, so the admission answer and the wait of
\* the other model do not depend on them, however the calls interleave
C29_WindowsIsolated == []MethodsIsolated /\ [][StepsIsolated]_vars

\* C29 witness: both models have timestamps in their windows; the one used
\* through executeWithRetry is at its quota and denied while the other one,
\* used through recordRequest, is admitted
C29_Witness ==
  /\ FLASH \in DOMAIN requestTimestamps
  /\ FLASH_THINKING \in DOMAIN requestTimestamps
  /\ Len(requestTimestamps[FLASH]) >= 1
  /\ call[PairProc].pc = "returned"
  /\ call[PairProc].modelId = FLASH_THINKING
  /\ ~canMakeRequest(requestTimestamps, FLASH_THINKING, now).ok
  /\ canMakeRequest(requestTimestamps, FLASH, now).ok

====
